---- MODULE Spec2Model ----
(***************************************************************************)
(* Chat front end: the streaming response assembler of ChatInterface.tsx,  *)
(* the stream reader of the API client and the session persistence         *)
(* adapter (firestoreService).                                             *)
(*                                                                         *)
(* JavaScript strings are sequences of atoms, '' is <<>> and + is \o.      *)
(* JavaScript values that cross JSON.stringify / JSON.parse are records    *)
(* of one shape, tagged by t.                                              *)
(***************************************************************************)
EXTENDS Integers, Sequences, FiniteSets, TLC

(* ------------------------------------------------------------------ *)
(* Bounds of the model                                                 *)
(* ------------------------------------------------------------------ *)
MaxLines == 3

MaxWire == 8

MaxOps == 4

(* ------------------------------------------------------------------ *)
(* JavaScript values                                                   *)
(* ------------------------------------------------------------------ *)
JVal(t, b, n, s, items) == [t |-> t, b |-> b, n |-> n, s |-> s, items |-> items]

JUndefined == JVal("undefined", FALSE, 0, <<>>, <<>>)

JNull == JVal("null", FALSE, 0, <<>>, <<>>)

JBool(b) == JVal("bool", b, 0, <<>>, <<>>)

JNum(n) == JVal("num", FALSE, n, <<>>, <<>>)

JStr(s) == JVal("str", FALSE, 0, s, <<>>)

JArr(items) == JVal("arr", FALSE, 0, <<>>, items)

\* an object with the one key "data"
JObj(v) == JVal("obj", FALSE, 0, <<>>, <<v>>)

\* JavaScript truthiness, as tested by `x ? a : b` and `if (x)`
Truthy(v) ==
    CASE v.t = "undefined" -> FALSE
      [] v.t = "null" -> FALSE
      [] v.t = "bool" -> v.b
      [] v.t = "num" -> v.n # 0
      [] v.t = "str" -> v.s # <<>>
      [] OTHER -> TRUE

RECURSIVE JoinItems(_, _)
RECURSIVE JSONStringify(_)
\* JSON.stringify: the JSON text of a JSON-representable value, as atoms
JSONStringify(v) ==
    CASE v.t = "null" -> <<"null">>
      [] v.t = "bool" -> IF v.b THEN <<"true">> ELSE <<"false">>
      [] v.t = "num" -> <<ToString(v.n)>>
      [] v.t = "str" -> <<"\"">> \o v.s \o <<"\"">>
      [] v.t = "arr" -> <<"[">> \o JoinItems(v.items, 1) \o <<"]">>
      [] v.t = "obj" -> <<"{", "\"", "data", "\"", ":">> \o JSONStringify(v.items[1]) \o <<"}">>

JoinItems(items, i) ==
    IF i > Len(items) THEN <<>>
    ELSE JSONStringify(items[i]) \o (IF i < Len(items) THEN <<",">> ELSE <<>>)
         \o JoinItems(items, i + 1)

Digits == {"0", "1", "2", "3"}

DigitValue(d) == CHOOSE n \in 0..3 : ToString(n) = d

ParseFail == [ok |-> FALSE, v |-> JUndefined, rest |-> <<>>]

\* the atoms of a string literal's body, up to the closing quote
RECURSIVE StringBody(_)
StringBody(ts) ==
    IF ts = <<>> THEN [ok |-> FALSE, s |-> <<>>, rest |-> <<>>]
    ELSE IF Head(ts) = "\"" THEN [ok |-> TRUE, s |-> <<>>, rest |-> Tail(ts)]
    ELSE LET r == StringBody(Tail(ts))
         IN [ok |-> r.ok, s |-> <<Head(ts)>> \o r.s, rest |-> r.rest]

RECURSIVE ParseValue(_)
RECURSIVE ParseElements(_)
\* one JSON value at the head of ts: [ok, v, rest]
ParseValue(ts) ==
    IF ts = <<>> THEN ParseFail
    ELSE LET h == Head(ts) t == Tail(ts) IN
      CASE h = "null" -> [ok |-> TRUE, v |-> JNull, rest |-> t]
        [] h = "true" -> [ok |-> TRUE, v |-> JBool(TRUE), rest |-> t]
        [] h = "false" -> [ok |-> TRUE, v |-> JBool(FALSE), rest |-> t]
        [] h \in Digits -> [ok |-> TRUE, v |-> JNum(DigitValue(h)), rest |-> t]
        [] h = "\"" ->
             LET r == StringBody(t)
             IN IF r.ok THEN [ok |-> TRUE, v |-> JStr(r.s), rest |-> r.rest] ELSE ParseFail
        [] h = "[" ->
             IF t # <<>> /\ Head(t) = "]"
             THEN [ok |-> TRUE, v |-> JArr(<<>>), rest |-> Tail(t)]
             ELSE LET r == ParseElements(t)
                  IN IF r.ok THEN [ok |-> TRUE, v |-> JArr(r.items), rest |-> r.rest]
                     ELSE ParseFail
        [] h = "{" ->
             IF Len(t) >= 4 /\ SubSeq(t, 1, 4) = <<"\"", "data", "\"", ":">>
             THEN LET r == ParseValue(SubSeq(t, 5, Len(t)))
                  IN IF r.ok /\ r.rest # <<>> /\ Head(r.rest) = "}"
                     THEN [ok |-> TRUE, v |-> JObj(r.v), rest |-> Tail(r.rest)]
                     ELSE ParseFail
             ELSE ParseFail
        [] OTHER -> ParseFail

\* the elements of a non-empty array, up to the closing bracket
ParseElements(ts) ==
    LET r == ParseValue(ts) IN
    IF ~r.ok \/ r.rest = <<>> THEN [ok |-> FALSE, items |-> <<>>, rest |-> <<>>]
    ELSE IF Head(r.rest) = "]"
         THEN [ok |-> TRUE, items |-> <<r.v>>, rest |-> Tail(r.rest)]
    ELSE IF Head(r.rest) = ","
         THEN LET q == ParseElements(Tail(r.rest))
              IN [ok |-> q.ok, items |-> <<r.v>> \o q.items, rest |-> q.rest]
    ELSE [ok |-> FALSE, items |-> <<>>, rest |-> <<>>]

\* JSON.parse of a whole text: [ok, v]; ok = FALSE is the thrown SyntaxError
JSONParse(ts) ==
    LET r == ParseValue(ts)
    IN IF r.ok /\ r.rest = <<>> THEN [ok |-> TRUE, v |-> r.v]
       ELSE [ok |-> FALSE, v |-> JUndefined]

(* ------------------------------------------------------------------ *)
(* Records of the data model                                           *)
(* ------------------------------------------------------------------ *)
NoCodeExecution ==
    [present |-> FALSE, codeChunks |-> <<>>, isExecuting |-> FALSE,
     result |-> <<>>, output |-> <<>>]

NoFollowUps == [def |-> FALSE, list |-> <<>>]

NoFileInfo == [def |-> FALSE, file_id |-> "", filename |-> ""]

NoTableData == [t |-> "undefined", data |-> JUndefined, columns |-> <<>>, filename |-> ""]

NullTableData == [t |-> "null", data |-> JUndefined, columns |-> <<>>, filename |-> ""]

TableData(data, columns, filename) ==
    [t |-> "table", data |-> data, columns |-> columns, filename |-> filename]

\* the argument of addMessage (ChatMessage without id; the timestamp, a
\* client clock reading that addMessage overwrites, is left out)
ChatMessage(sessionId, userId, type, content, chartData, tableData, followUps, fileInfo, code) ==
    [sessionId |-> sessionId, userId |-> userId, type |-> type, content |-> content,
     chartData |-> chartData, tableData |-> tableData, followUpQuestions |-> followUps,
     fileInfo |-> fileInfo, codeExecution |-> code]

TextMessage(sessionId, userId, type, content) ==
    ChatMessage(sessionId, userId, type, content, JUndefined, NoTableData,
                NoFollowUps, NoFileInfo, NoCodeExecution)

(* ------------------------------------------------------------------ *)
(* The document store: collection 'chat'                               *)
(* ------------------------------------------------------------------ *)
\* ids that addDoc generates
GeneratedIds == {"s1", "s2"}

\* an id a client still holds (localStorage) of a document that is not there
StaleIds == {"x1"}

SessionIds == GeneratedIds \cup StaleIds

UserIds == {"u1", "u2"}

Callers == {"c1", "c2"}

\* a document that does not exist
NoDoc ==
    [exists |-> FALSE, userId |-> "undefined", title |-> "undefined",
     status |-> "undefined", messages |-> <<>>, createdAt |-> 0, updatedAt |-> 0,
     fileId |-> "undefined", fileName |-> "undefined", fileUrl |-> "undefined",
     projectId |-> "undefined"]

IdleCall == [pc |-> "idle", message |-> TextMessage("s1", "u1", "user", <<>>), snap |-> NoDoc]

VARIABLES
    sessions,       \* the 'chat' collection: session id -> document
    clock,          \* the store's time: serverTimestamp() of the last write
    calls,          \* the addMessage calls in progress, one slot per caller
    appended,       \* history: per session, the messages passed to addMessage, in call order
    overlapped,     \* history: the sessions on which two addMessage calls overlapped
    writes          \* history: per session, the operations that wrote it, in order

storeVars == <<sessions, clock, calls, appended, overlapped, writes>>

\* createChatSession: addDoc with a generated id
FreshId == CHOOSE s \in GeneratedIds : ~sessions[s].exists

CreatedDoc(userId, title, now) ==
    [NoDoc EXCEPT !.exists = TRUE, !.userId = userId, !.title = title,
                  !.status = "active", !.messages = <<>>,
                  !.createdAt = now, !.updatedAt = now]

CreateChatSession(userId, title) ==
    /\ clock < MaxOps
    /\ \E s \in GeneratedIds : ~sessions[s].exists
    /\ clock' = clock + 1
    /\ sessions' = [sessions EXCEPT ![FreshId] = CreatedDoc(userId, title, clock')]
    /\ writes' = [writes EXCEPT ![FreshId] = Append(@, "create")]
    /\ UNCHANGED <<calls, appended, overlapped>>

\* getChatSessions: where userId == u, orderBy updatedAt desc, then the
\* client-side status filter
RECURSIVE OrderByUpdatedAtDesc(_)
OrderByUpdatedAtDesc(ids) ==
    IF ids = {} THEN <<>>
    ELSE LET top == CHOOSE s \in ids : \A r \in ids : sessions[r].updatedAt <= sessions[s].updatedAt
         IN <<top>> \o OrderByUpdatedAtDesc(ids \ {top})

StatusFilter(session) == session.status = "undefined" \/ session.status = "active"

GetChatSessions(userId) ==
    SelectSeq(OrderByUpdatedAtDesc({s \in SessionIds :
                                      sessions[s].exists /\ sessions[s].userId = userId}),
              LAMBDA s : StatusFilter(sessions[s]))

\* a delete that empties the record it marks
DeletedDocCleared(doc, now) ==
    [doc EXCEPT !.exists = TRUE, !.status = "deleted", !.messages = <<>>,
                !.fileId = "undefined", !.updatedAt = now]

\* setDoc(..., { merge: true }) with { status: 'deleted', updatedAt }
DeletedDoc(doc, now) ==
    [doc EXCEPT !.exists = TRUE, !.status = "deleted", !.updatedAt = now]

DeleteChatSession(sessionId) ==
    /\ clock < MaxOps
    /\ clock' = clock + 1
    /\ sessions' = [sessions EXCEPT ![sessionId] = DeletedDoc(@, clock')]
    /\ writes' = [writes EXCEPT ![sessionId] = Append(@, "delete")]
    /\ UNCHANGED <<calls, appended, overlapped>>

\* updateChatSession with the file info of an upload (handleFileUpload)
FileInfoUpdate(doc, file, now) ==
    [doc EXCEPT !.exists = TRUE, !.fileId = file, !.fileName = file, !.fileUrl = file,
                !.updatedAt = now]

\* updateChatSession with a project link and title (ChatInput)
ProjectUpdate(doc, project, title, now) ==
    [doc EXCEPT !.exists = TRUE, !.projectId = project, !.title = title, !.updatedAt = now]

Files == {"f1", "f2"}

UpdateChatSession(sessionId) ==
    /\ clock < MaxOps
    /\ clock' = clock + 1
    /\ \/ \E f \in Files :
            sessions' = [sessions EXCEPT ![sessionId] = FileInfoUpdate(@, f, clock')]
       \/ sessions' = [sessions EXCEPT ![sessionId] = ProjectUpdate(@, "p1", "t2", clock')]
    /\ writes' = [writes EXCEPT ![sessionId] = Append(@, "update")]
    /\ UNCHANGED <<calls, appended, overlapped>>

\* addMessage, lines 405-415: chart and table payloads become JSON text
SanitizedChartData(chartData) ==
    IF Truthy(chartData) THEN JStr(JSONStringify(chartData)) ELSE JNull

SanitizedTableData(tableData) ==
    IF tableData.t = "table"
    THEN [tableData EXCEPT !.data = JStr(JSONStringify(tableData.data))]
    ELSE NullTableData

SanitizedMessage(message) ==
    [message EXCEPT !.chartData = SanitizedChartData(message.chartData),
                    !.tableData = SanitizedTableData(message.tableData)]

\* an addMessage that leaves updatedAt as it was
AddMessageDocKeepsTime(doc, snap, message, now) ==
    IF snap.exists
    THEN [doc EXCEPT !.exists = TRUE,
                     !.messages = Append(snap.messages, SanitizedMessage(message))]
    ELSE [NoDoc EXCEPT !.exists = TRUE, !.userId = message.userId, !.title = "New Chat",
                       !.status = "active",
                       !.messages = <<SanitizedMessage(message)>>,
                       !.createdAt = now, !.updatedAt = now]

\* an addMessage that puts the new message first
AddMessageDocPrepend(doc, snap, message, now) ==
    IF snap.exists
    THEN [doc EXCEPT !.exists = TRUE,
                     !.messages = <<SanitizedMessage(message)>> \o snap.messages,
                     !.updatedAt = now]
    ELSE [NoDoc EXCEPT !.exists = TRUE, !.userId = message.userId, !.title = "New Chat",
                       !.status = "active",
                       !.messages = <<SanitizedMessage(message)>>,
                       !.createdAt = now, !.updatedAt = now]

\* an addMessage that appends to the list as it is at the write (arrayUnion)
AddMessageDocTransactional(doc, snap, message, now) ==
    [doc EXCEPT !.exists = TRUE,
                !.userId = IF doc.exists THEN @ ELSE message.userId,
                !.title = IF doc.exists THEN @ ELSE "New Chat",
                !.status = IF doc.exists THEN @ ELSE "active",
                !.messages = Append(doc.messages, SanitizedMessage(message)),
                !.createdAt = IF doc.exists THEN @ ELSE now,
                !.updatedAt = now]

\* an addMessage that writes status 'active' with every append
AddMessageDocReactivates(doc, snap, message, now) ==
    IF snap.exists
    THEN [doc EXCEPT !.exists = TRUE, !.status = "active",
                     !.messages = Append(snap.messages, SanitizedMessage(message)),
                     !.updatedAt = now]
    ELSE [NoDoc EXCEPT !.exists = TRUE, !.userId = message.userId, !.title = "New Chat",
                       !.status = "active",
                       !.messages = <<SanitizedMessage(message)>>,
                       !.createdAt = now, !.updatedAt = now]

\* the document addMessage writes, from the snapshot it read
AddMessageDoc(doc, snap, message, now) ==
    IF snap.exists
    THEN \* setDoc(chatRef, { messages, updatedAt }, { merge: true })
         [doc EXCEPT !.exists = TRUE,
                     !.messages = Append(snap.messages, SanitizedMessage(message)),
                     !.updatedAt = now]
    ELSE \* setDoc(chatRef, { userId, title, status, messages, createdAt, updatedAt })
         [NoDoc EXCEPT !.exists = TRUE, !.userId = message.userId, !.title = "New Chat",
                       !.status = "active",
                       !.messages = <<SanitizedMessage(message)>>,
                       !.createdAt = now, !.updatedAt = now]

\* addMessage up to `await getDoc(chatRef)`
AddMessageCall(c, message) ==
    /\ calls[c].pc = "idle"
    /\ calls' = [calls EXCEPT ![c] = [pc |-> "getDoc", message |-> message, snap |-> NoDoc]]
    /\ appended' = [appended EXCEPT ![message.sessionId] = Append(@, message)]
    /\ overlapped' =
         IF \E d \in Callers \ {c} : calls[d].pc # "idle"
                                     /\ calls[d].message.sessionId = message.sessionId
         THEN overlapped \cup {message.sessionId} ELSE overlapped
    /\ UNCHANGED <<sessions, clock, writes>>

\* getDoc resolves: the snapshot of the document
AddMessageGetDoc(c) ==
    /\ calls[c].pc = "getDoc"
    /\ calls' = [calls EXCEPT ![c].pc = "setDoc",
                              ![c].snap = sessions[calls[c].message.sessionId]]
    /\ UNCHANGED <<sessions, clock, appended, overlapped, writes>>

\* setDoc: the write of the document
AddMessageSetDoc(c) ==
    /\ calls[c].pc = "setDoc"
    /\ clock' = clock + 1
    /\ sessions' = [sessions EXCEPT ![calls[c].message.sessionId] =
                      AddMessageDoc(@, calls[c].snap, calls[c].message, clock')]
    /\ calls' = [calls EXCEPT ![c] = IdleCall]
    /\ writes' = [writes EXCEPT ![calls[c].message.sessionId] = Append(@, "add")]
    /\ UNCHANGED <<appended, overlapped>>

\* getMessages, lines 483-533: one stored message, payloads parsed back
ProcessedChartData(stored) ==
    IF Truthy(stored)
    THEN IF stored.t = "str"
         THEN LET r == JSONParse(stored.s) IN IF r.ok THEN r.v ELSE JNull
         ELSE stored
    ELSE JNull

ProcessedTableData(stored) ==
    IF stored.t = "table" /\ Truthy(stored.data)
    THEN IF stored.data.t = "str"
         THEN LET r == JSONParse(stored.data.s)
              IN IF r.ok THEN [stored EXCEPT !.data = r.v] ELSE stored
         ELSE stored
    ELSE stored

ProcessedMessage(message) ==
    [message EXCEPT !.chartData = ProcessedChartData(message.chartData),
                    !.tableData = ProcessedTableData(message.tableData)]

\* getMessages, lines 466-541, on the document it read
MessagesOfDoc(doc) ==
    IF doc.exists
    THEN [i \in 1..Len(doc.messages) |-> ProcessedMessage(doc.messages[i])]
    ELSE <<>>

GetMessages(sessionId) == MessagesOfDoc(sessions[sessionId])

(* ------------------------------------------------------------------ *)
(* Chunks of the streaming response and their form on the wire         *)
(* ------------------------------------------------------------------ *)
LF == "\n"

Chunk(type, content, code, chartData, followUps, codeExecution) ==
    [type |-> type, content |-> content, code |-> code, chartData |-> chartData,
     followUpQuestions |-> followUps, codeExecution |-> codeExecution]

ContentChunk(type, content) ==
    Chunk(type, content, <<>>, JUndefined, NoFollowUps, NoCodeExecution)

ChartPayload == JObj(JArr(<<JArr(<<JNum(1)>>)>>))

FinalChartPayload == JObj(JArr(<<JNum(2)>>))

BackendCodeExecution ==
    [present |-> TRUE, codeChunks |-> <<<<"y=2">>>>, isExecuting |-> FALSE,
     result |-> <<"2">>, output |-> <<"2">>]

\* the chunks the backend sends, by the atom that stands for their JSON text
ChunkKeys ==
    {"analysis_start", "step_update", "code_complete_display", "code_stream",
     "code_execution_result", "chart_generated", "analysis_complete",
     "analysis_complete:code", "text_stream:Done", "text_stream:b", "error", "status"}

ChunkOf(key) ==
    CASE key = "analysis_start" -> ContentChunk("analysis_start", <<"Analyzing">>)
      [] key = "step_update" -> ContentChunk("step_update", <<"Step">>)
      [] key = "code_complete_display" ->
           Chunk("code_complete_display", <<>>, <<"x=1", LF, " ", LF, "print(x)">>,
                 JUndefined, NoFollowUps, NoCodeExecution)
      [] key = "code_stream" -> ContentChunk("code_stream", <<"x">>)
      [] key = "code_execution_result" -> ContentChunk("code_execution_result", <<"1">>)
      [] key = "chart_generated" ->
           Chunk("chart_generated", <<>>, <<>>, ChartPayload, NoFollowUps, NoCodeExecution)
      [] key = "analysis_complete" -> ContentChunk("analysis_complete", <<>>)
      [] key = "analysis_complete:code" ->
           Chunk("analysis_complete", <<>>, <<>>, FinalChartPayload,
                 [def |-> TRUE, list |-> <<"q1">>], BackendCodeExecution)
      [] key = "text_stream:Done" -> ContentChunk("text_stream", <<"Done">>)
      [] key = "text_stream:b" -> ContentChunk("text_stream", <<"b">>)
      [] key = "error" -> ContentChunk("error", <<"E">>)
      [] key = "status" -> ContentChunk("status", <<"Working">>)

DataPrefix == "data: "

\* the JSON text of a chunk: the atom of its body, then the closing brace
ChunkJson(key) == <<key, "}">>

\* JSON.parse of the text after the prefix: [ok, key]
ParseChunk(jsonStr) ==
    IF Len(jsonStr) = 2 /\ jsonStr[1] \in ChunkKeys /\ jsonStr[2] = "}"
    THEN [ok |-> TRUE, key |-> jsonStr[1]]
    ELSE [ok |-> FALSE, key |-> ""]

\* String.prototype.split('\n')
RECURSIVE Split(_)
Split(str) ==
    IF \A i \in 1..Len(str) : str[i] # LF THEN <<str>>
    ELSE LET i == CHOOSE k \in 1..Len(str) : str[k] = LF /\ \A j \in 1..(k - 1) : str[j] # LF
         IN <<SubSeq(str, 1, i - 1)>> \o Split(SubSeq(str, i + 1, Len(str)))

\* line.trim() === ''
IsBlank(line) == \A i \in 1..Len(line) : line[i] = " "

StartsWithData(line) == Len(line) >= 1 /\ line[1] = DataPrefix

(* ------------------------------------------------------------------ *)
(* ChatInterface: the message list and the streaming handler           *)
(* ------------------------------------------------------------------ *)
User == "u1"

UserMessageId == "Date.now()"

AssistantMessageId == "Date.now()+1"

Placeholder == <<"processing...">>

StreamErrorText == <<"stream error">>

TempSessionId == "temp_1"

IsTemp(id) == id = TempSessionId

\* a guard that lets every message through to addMessage
SavesMessageAlways(id) == TRUE

\* the guard of every addMessage call of the handlers:
\* sessionId && !sessionId.startsWith('temp_')
SavesMessage(id) == id # "null" /\ ~IsTemp(id)

Message(id, type, content, isStreaming) ==
    [id |-> id, type |-> type, content |-> content, isStreaming |-> isStreaming,
     codeExecution |-> NoCodeExecution, chartData |-> JUndefined,
     followUpQuestions |-> NoFollowUps, fileInfo |-> NoFileInfo, tableData |-> NoTableData]

InitialAssistantMessage == Message(AssistantMessageId, "assistant", Placeholder, TRUE)

VARIABLES
    messages,               \* useState: the message list as last computed
    queue,                  \* setMessages updaters not yet run (they run at the next render)
    renderPending,          \* a render of the component is scheduled
    textBuffer,             \* closure variable of handleSendMessage
    finalAssistantMessage,  \* closure variable of handleSendMessage
    currentSessionId,       \* useState / localStorage
    sessionId,              \* the local sessionId of the running handleSendMessage
    reader,                 \* askUnifiedQuestionStream: "idle", "fetch", "reading", "complete", "failed"
    buffer,                 \* the reader's line buffer
    wire,                   \* body bytes sent and not yet read
    serverClosed,           \* the backend has ended the response body
    script,                 \* the lines a scripted backend has still to write
    sent,                   \* history: the kind of each LF-terminated line written, in order
    delivered,              \* history: chunks handed to onChunk, in order
    completed,              \* history: calls of onComplete
    errored,                \* history: calls of onError
    uploadedFile,           \* useState: the active file, its file_id or "null"
    upload,                 \* the handleFileUpload in progress
    requests,               \* history: the requests sent to the streaming endpoint
    outcome,                \* history: how the last adapter call under test ended
    dateNow,                \* Date.now(): the client's clock, in milliseconds
    loading                 \* the sessions whose getMessages a handleSessionClick awaits

chatVars == <<uploadedFile, upload, requests, outcome, dateNow, loading>>

uiVars == <<messages, queue, renderPending, textBuffer, finalAssistantMessage,
            currentSessionId, sessionId, chatVars>>

readerVars == <<reader, buffer, wire, serverClosed, script, sent,
                delivered, completed, errored>>

vars == <<storeVars, uiVars, readerVars>>

\* the React state touched by the stream callbacks, as one record
Handler == [messages |-> messages, queue |-> queue, renderPending |-> renderPending,
            textBuffer |-> textBuffer, final |-> finalAssistantMessage]

\* chunk.code.split('\n').filter(line => line.trim())
CodeChunks(code) == SelectSeq(Split(code), LAMBDA line : ~IsBlank(line))

\* the switch of onChunk, lines 1030-1123, on a copy of the target message;
\* reads and clears the closure's textBuffer
ChunkSwitch(msg, chunk, tb) ==
    CASE chunk.type \in {"analysis_start", "step_update"} ->
           [msg |-> [msg EXCEPT !.content = chunk.content], textBuffer |-> tb]
      [] chunk.type = "code_complete_display" ->
           [msg |-> [msg EXCEPT !.codeExecution =
                                   [present |-> TRUE, codeChunks |-> CodeChunks(chunk.code),
                                    isExecuting |-> TRUE, result |-> <<>>, output |-> <<>>],
                                !.content = <<>>],
            textBuffer |-> tb]
      [] chunk.type \in {"code_stream", "insights_generated"} ->
           [msg |-> msg, textBuffer |-> tb]
      [] chunk.type = "code_execution_result" ->
           [msg |-> IF msg.codeExecution.present
                    THEN [msg EXCEPT !.codeExecution.isExecuting = FALSE,
                                     !.codeExecution.result = chunk.content,
                                     !.codeExecution.output = chunk.content]
                    ELSE msg,
            textBuffer |-> tb]
      [] chunk.type = "chart_generated" ->
           [msg |-> [msg EXCEPT !.chartData = chunk.chartData], textBuffer |-> tb]
      [] chunk.type = "analysis_complete" ->
           LET flush == ~msg.codeExecution.present /\ tb # <<>>
           IN [msg |-> [msg EXCEPT !.content = IF flush THEN @ \o tb ELSE @,
                                   !.chartData = chunk.chartData,
                                   !.followUpQuestions =
                                      IF chunk.followUpQuestions.def
                                      THEN chunk.followUpQuestions
                                      ELSE [def |-> TRUE, list |-> <<>>],
                                   !.codeExecution =
                                      IF chunk.codeExecution.present
                                      THEN chunk.codeExecution ELSE @,
                                   !.isStreaming = FALSE],
               textBuffer |-> IF flush THEN <<>> ELSE tb]
      [] chunk.type = "text_stream" ->
           LET canAddText == ~msg.codeExecution.present \/ ~msg.codeExecution.isExecuting
           IN [msg |-> IF canAddText /\ chunk.content # <<>>
                       THEN [msg EXCEPT !.content = @ \o chunk.content]
                       ELSE msg,
               textBuffer |-> tb]
      [] chunk.type = "error" ->
           [msg |-> [msg EXCEPT !.content = chunk.content,
                                !.codeExecution.isExecuting = FALSE,
                                !.isStreaming = FALSE],
            textBuffer |-> tb]
      [] OTHER ->
           [msg |-> IF chunk.content # <<>> THEN [msg EXCEPT !.content = chunk.content]
                    ELSE msg,
            textBuffer |-> tb]

\* the index of the message prevMessages.map updates
TargetIndex(msgs) ==
    IF \E i \in 1..Len(msgs) : msgs[i].id = AssistantMessageId
    THEN CHOOSE i \in 1..Len(msgs) : msgs[i].id = AssistantMessageId
    ELSE 0

ChunkUpdater(key) == [kind |-> "chunk", key |-> key]

FlushUpdater == [kind |-> "flush", key |-> ""]

ErrorUpdater == [kind |-> "error", key |-> ""]

\* an updater that builds the message of a text chunk anew from its content
ApplyUpdaterRebuildsMessage(h, u) ==
    LET i == TargetIndex(h.messages) IN
    IF i = 0 THEN h
    ELSE CASE u.kind = "chunk" ->
                LET r == ChunkSwitch(h.messages[i], ChunkOf(u.key), h.textBuffer)
                    m == IF ChunkOf(u.key).type = "text_stream"
                         THEN Message(r.msg.id, r.msg.type, r.msg.content, r.msg.isStreaming)
                         ELSE r.msg
                IN [h EXCEPT !.messages[i] = m, !.textBuffer = r.textBuffer, !.final = m]
           [] u.kind = "flush" ->
                [h EXCEPT !.messages[i].content = @ \o h.textBuffer]
           [] u.kind = "error" ->
                [h EXCEPT !.messages[i].content = StreamErrorText,
                          !.messages[i].codeExecution.isExecuting = FALSE]

\* one updater function passed to setMessages, run on the list h.messages
ApplyUpdater(h, u) ==
    LET i == TargetIndex(h.messages) IN
    IF i = 0 THEN h
    ELSE CASE u.kind = "chunk" ->
                LET r == ChunkSwitch(h.messages[i], ChunkOf(u.key), h.textBuffer)
                IN [h EXCEPT !.messages[i] = r.msg, !.textBuffer = r.textBuffer,
                             !.final = r.msg]
           [] u.kind = "flush" ->
                [h EXCEPT !.messages[i].content = @ \o h.textBuffer]
           [] u.kind = "error" ->
                [h EXCEPT !.messages[i].content = StreamErrorText,
                          !.messages[i].codeExecution.isExecuting = FALSE]

\* setMessages(updater): React runs the updater at once when the component
\* has no update pending (eager), otherwise when it next renders
SetMessages(h, u, eager) ==
    IF eager /\ ~h.renderPending
    THEN [ApplyUpdater(h, u) EXCEPT !.renderPending = TRUE]
    ELSE [h EXCEPT !.queue = Append(@, u), !.renderPending = TRUE]

RECURSIVE ApplyQueue(_)
ApplyQueue(h) ==
    IF h.queue = <<>> THEN h
    ELSE ApplyQueue(ApplyUpdater([h EXCEPT !.queue = Tail(@)], Head(h.queue)))

TEXT_UPDATE_THROTTLE == 0

\* onChunk, lines 1004-1132; elapsed is now - lastTextUpdate
OnChunk(h, key, eager, elapsed) ==
    LET chunk == ChunkOf(key)
        h1 == IF chunk.type = "text_stream"
              THEN [h EXCEPT !.textBuffer = @ \o chunk.content] ELSE h
    IN IF chunk.type = "text_stream" /\ elapsed < TEXT_UPDATE_THROTTLE
       THEN h1
       ELSE SetMessages(h1, ChunkUpdater(key), eager)

\* an onComplete that writes the record without flushing the textBuffer
OnCompleteNoFlush(h, eager) == h

\* onComplete, lines 1156-1174: the flush of the remaining textBuffer
OnCompleteFlush(h, eager) ==
    IF h.textBuffer # <<>>
    THEN [SetMessages(h, FlushUpdater, eager) EXCEPT !.textBuffer = <<>>]
    ELSE h

\* onComplete, lines 1181-1207: the record passed to addMessage
MessageData(final, sid) ==
    ChatMessage(sid, User, final.type, final.content,
                IF Truthy(final.chartData) THEN final.chartData ELSE JUndefined,
                final.tableData, final.followUpQuestions, final.fileInfo,
                final.codeExecution)

(* ------------------------------------------------------------------ *)
(* handleSendMessage and askUnifiedQuestionStream                      *)
(* ------------------------------------------------------------------ *)
Questions == {<<"q">>}

SetHandler(h) ==
    /\ messages' = h.messages
    /\ queue' = h.queue
    /\ renderPending' = h.renderPending
    /\ textBuffer' = h.textBuffer
    /\ finalAssistantMessage' = h.final

\* addMessage run to its end with no other store operation in between
AddMessageNow(store, message, now) ==
    [store EXCEPT ![message.sessionId] = AddMessageDoc(@, @, message, now)]

HISTORY_WINDOW == 10

\* a slice(0, n) in the place of slice(-n)
FirstN(list, n) == IF Len(list) <= n THEN list ELSE SubSeq(list, 1, n)

\* the last n elements of a list: slice(-n)
LastN(list, n) ==
    IF Len(list) <= n THEN list ELSE SubSeq(list, Len(list) - n + 1, Len(list))

\* lines 979-986: the messages of the render, filtered, cut and mapped
ConversationHistory(msgs) ==
    LET turns == SelectSeq(msgs, LAMBDA m : m.type = "user" \/ m.type = "assistant")
        recent == LastN(turns, HISTORY_WINDOW)
    IN [i \in 1..Len(recent) |->
          [role |-> IF recent[i].type = "user" THEN "user" ELSE "assistant",
           content |-> recent[i].content]]

\* lines 993-998: the request of askUnifiedQuestionStream
UnifiedQuestionRequest(question, file, msgs) ==
    [question |-> question, file_id |-> file,
     conversation_history |-> ConversationHistory(msgs)]

\* useState(false), line 56: no handler calls setIsLoading
isLoading == FALSE

\* handleSendMessage, lines 853-998, up to the fetch of the stream:
\* created says whether createChatSession resolved or threw, the ids are the
\* two it mints from Date.now(), first says that no other stream is open
HandleSendMessageAt(content, created, userMessageId, assistantMessageId, first) ==
    /\ IF first THEN reader = "idle" ELSE reader \in {"fetch", "reading"}
    /\ content # <<>>
    /\ ~isLoading
    /\ LET needsSession == currentSessionId = "null" \/ IsTemp(currentSessionId)
           canCreate == \E s \in GeneratedIds : ~sessions[s].exists
           sid == IF ~needsSession THEN currentSessionId
                  ELSE IF created THEN FreshId ELSE TempSessionId
           t1 == IF needsSession /\ created THEN clock + 1 ELSE clock
           store1 == IF needsSession /\ created
                     THEN [sessions EXCEPT ![sid] = CreatedDoc(User, "title", t1)]
                     ELSE sessions
           userMessage == Message(userMessageId, "user", content, FALSE)
           initialAssistantMessage == Message(assistantMessageId, "assistant", Placeholder, TRUE)
           save == SavesMessage(sid)
           saved == TextMessage(sid, User, "user", content)
       IN /\ created => (needsSession /\ canCreate)
          /\ (~created) => (needsSession \/ currentSessionId # "null")
          /\ currentSessionId' = sid
          /\ sessionId' = IF first THEN sid ELSE sessionId
          /\ messages' = messages \o <<userMessage, initialAssistantMessage>>
          /\ renderPending' = TRUE
          /\ finalAssistantMessage' = IF first THEN initialAssistantMessage
                                      ELSE finalAssistantMessage
          /\ textBuffer' = IF first THEN <<>> ELSE textBuffer
          /\ clock' = IF save THEN t1 + 1 ELSE t1
          /\ sessions' = IF save THEN AddMessageNow(store1, saved, t1 + 1) ELSE store1
          /\ appended' = IF save THEN [appended EXCEPT ![sid] = Append(@, saved)]
                         ELSE appended
          /\ writes' = IF needsSession /\ created
                       THEN [writes EXCEPT ![sid] = <<"create", "add">>]
                       ELSE IF save THEN [writes EXCEPT ![sid] = Append(@, "add")]
                       ELSE writes
    /\ reader' = IF first THEN "fetch" ELSE reader
    /\ requests' = Append(requests, UnifiedQuestionRequest(content, uploadedFile, messages))
    /\ UNCHANGED <<queue, calls, overlapped, buffer, wire, serverClosed, script,
                   sent, delivered, completed, errored, uploadedFile, upload, outcome, dateNow, loading>>

\* the submission of a question while no stream is open
HandleSendMessage(content, created) ==
    HandleSendMessageAt(content, created, UserMessageId, AssistantMessageId, TRUE)

\* an onError that leaves the message list alone
OnErrorIgnored(h, eager) == h

\* onError, lines 1136-1153
OnError(h, eager) == SetMessages(h, ErrorUpdater, eager)

\* fetch resolves with an OK response that has a body
FetchOk ==
    /\ reader = "fetch"
    /\ reader' = "reading"
    /\ UNCHANGED <<storeVars, uiVars, buffer, wire, serverClosed, script,
                   sent, delivered, completed, errored>>

\* fetch rejects, the status is not OK, or the body is missing: catch, onError
FetchFail ==
    /\ reader = "fetch"
    /\ reader' = "failed"
    /\ errored' = errored + 1
    /\ \E eager \in BOOLEAN : SetHandler(OnError(Handler, eager))
    /\ UNCHANGED <<storeVars, currentSessionId, sessionId, chatVars, buffer, wire, serverClosed,
                   script, sent, delivered, completed>>

\* the lines the backend writes
DataLine(key) == <<DataPrefix>> \o ChunkJson(key)

MalformedLines == {<<DataPrefix, "text_stream:b">>, <<DataPrefix, "}">>}

OtherLines == {<<>>, <<": ping">>}

\* the chunks of an analysis answer
StreamKeys ==
    {"analysis_start", "code_complete_display", "code_execution_result",
     "chart_generated", "analysis_complete", "analysis_complete:code",
     "text_stream:Done", "text_stream:b", "error"}

StreamLines == {DataLine(k) : k \in StreamKeys}

\* a body with chunks the handler ignores or shows as status, bad lines and keep-alives
ReaderKeys == {"text_stream:b", "step_update", "code_stream", "status"}

ReaderLines == {DataLine(k) : k \in ReaderKeys} \cup MalformedLines \cup OtherLines

\* what the history records of a line: the chunk, "malformed" or "other"
LineKind(line) ==
    IF \E k \in ChunkKeys : line = DataLine(k) THEN line[2]
    ELSE IF line \in MalformedLines THEN "malformed"
    ELSE "other"

\* the chunks written so far as whole data lines
SentKeys == SelectSeq(sent, LAMBDA k : k \in ChunkKeys)

\* the backend writes one line and its newline
ServerWrite(line) ==
    /\ reader = "reading"
    /\ ~serverClosed
    /\ Len(wire) + Len(line) + 1 <= MaxWire
    /\ wire' = wire \o line \o <<LF>>
    /\ sent' = Append(sent, LineKind(line))
    /\ UNCHANGED <<storeVars, uiVars, reader, buffer, serverClosed, delivered,
                   completed, errored>>

ServerSend(line) ==
    /\ Len(sent) < MaxLines
    /\ script = <<>>
    /\ ServerWrite(line)
    /\ UNCHANGED script

\* a backend that writes the chunks of script in order
ServerSendScripted ==
    /\ script # <<>>
    /\ ServerWrite(DataLine(Head(script)))
    /\ script' = Tail(script)

\* the backend ends the body
ServerClose ==
    /\ reader = "reading"
    /\ ~serverClosed
    /\ script = <<>>
    /\ serverClosed' = TRUE
    /\ UNCHANGED <<storeVars, uiVars, reader, buffer, wire, script, sent,
                   delivered, completed, errored>>

\* the backend ends the body after a line that it does not end with a newline
ServerCloseUnterminated(line) ==
    /\ reader = "reading"
    /\ ~serverClosed
    /\ script = <<>>
    /\ Len(sent) < MaxLines
    /\ Len(wire) + Len(line) <= MaxWire
    /\ wire' = wire \o line
    /\ serverClosed' = TRUE
    /\ UNCHANGED <<storeVars, uiVars, reader, buffer, script, sent,
                   delivered, completed, errored>>

\* a loop that gives up the rest of the read at a line that does not parse
RECURSIVE ProcessLinesStopAtBadLine(_, _, _, _, _)
ProcessLinesStopAtBadLine(st, lines, i, eager, elapsed) ==
    IF i > Len(lines) THEN st
    ELSE LET line == lines[i]
             parsed == ParseChunk(Tail(line))
         IN IF IsBlank(line) \/ ~StartsWithData(line)
            THEN ProcessLinesStopAtBadLine(st, lines, i + 1, eager, elapsed)
            ELSE IF parsed.ok
            THEN ProcessLinesStopAtBadLine(
                     [h |-> OnChunk(st.h, parsed.key, eager, elapsed),
                      delivered |-> Append(st.delivered, parsed.key)],
                     lines, i + 1, eager, elapsed)
            ELSE st

\* the for loop over the complete lines of one read, lines 178-191
RECURSIVE ProcessLines(_, _, _, _, _)
ProcessLines(st, lines, i, eager, elapsed) ==
    IF i > Len(lines) THEN st
    ELSE LET line == lines[i]
             parsed == ParseChunk(Tail(line))
             st1 == IF IsBlank(line) THEN st
                    ELSE IF StartsWithData(line) /\ parsed.ok
                    THEN [h |-> OnChunk(st.h, parsed.key, eager, elapsed),
                          delivered |-> Append(st.delivered, parsed.key)]
                    ELSE st
         IN ProcessLines(st1, lines, i + 1, eager, elapsed)

\* reader.read() resolves with the next n bytes of the body, lines 164-191
Read(n, eager, elapsed) ==
    /\ reader = "reading"
    /\ n \in 1..Len(wire)
    /\ LET text == buffer \o SubSeq(wire, 1, n)
           lines == Split(text)
           st == ProcessLines([h |-> Handler, delivered |-> delivered],
                              SubSeq(lines, 1, Len(lines) - 1), 1, eager, elapsed)
       IN /\ buffer' = lines[Len(lines)]
          /\ SetHandler(st.h)
          /\ delivered' = st.delivered
    /\ wire' = SubSeq(wire, n + 1, Len(wire))
    /\ UNCHANGED <<storeVars, currentSessionId, sessionId, chatVars, reader, serverClosed,
                   script, sent, completed, errored>>

\* reader.read() resolves with done: onComplete, lines 166-169 and 1155-1223,
\* up to the await of addMessage
ReadDone(eager) ==
    /\ reader = "reading"
    /\ serverClosed
    /\ wire = <<>>
    /\ reader' = "complete"
    /\ completed' = completed + 1
    /\ LET h == OnCompleteFlush(Handler, eager)
       IN /\ SetHandler(h)
          /\ IF SavesMessage(sessionId)
             THEN AddMessageCall("c1", MessageData(finalAssistantMessage, sessionId))
             ELSE UNCHANGED storeVars
    /\ UNCHANGED <<currentSessionId, sessionId, chatVars, buffer, wire, serverClosed, script,
                   sent, delivered, errored>>

\* reader.read() rejects: catch, onError, lines 193-196
ReadFail(eager) ==
    /\ reader = "reading"
    /\ ~(serverClosed /\ wire = <<>>)
    /\ reader' = "failed"
    /\ errored' = errored + 1
    /\ SetHandler(OnError(Handler, eager))
    /\ UNCHANGED <<storeVars, currentSessionId, sessionId, chatVars, buffer, wire, serverClosed,
                   script, sent, delivered, completed>>

\* the component renders: the queued updaters run in order
RenderMessages ==
    /\ renderPending
    /\ SetHandler([ApplyQueue(Handler) EXCEPT !.renderPending = FALSE])
    /\ UNCHANGED <<storeVars, currentSessionId, sessionId, chatVars, readerVars>>

\* the store steps of the addMessage that onComplete awaits
SaveGetDoc == AddMessageGetDoc("c1") /\ UNCHANGED <<uiVars, readerVars>>

SaveSetDoc == AddMessageSetDoc("c1") /\ UNCHANGED <<uiVars, readerVars>>

NoSessions == [s \in SessionIds |-> NoDoc]

\* Date.now() when the page is loaded
Epoch == 10

\* no handleFileUpload is running
NoUpload == [pc |-> "idle", file |-> "null", sessionId |-> "null", result |-> "none"]

\* no adapter call under test has ended yet
NoOutcome ==
    [op |-> "none", failed |-> FALSE, threw |-> FALSE, id |-> "none",
     ids |-> <<>>, messages |-> <<>>]

InitStore ==
    /\ sessions = NoSessions
    /\ clock = 0
    /\ calls = [c \in Callers |-> IdleCall]
    /\ appended = [s \in SessionIds |-> <<>>]
    /\ overlapped = {}
    /\ writes = [s \in SessionIds |-> <<>>]

InitUI ==
    /\ messages = <<>>
    /\ queue = <<>>
    /\ renderPending = FALSE
    /\ textBuffer = <<>>
    /\ finalAssistantMessage = InitialAssistantMessage
    /\ sessionId = "null"
    /\ reader = "idle"
    /\ buffer = <<>>
    /\ wire = <<>>
    /\ serverClosed = FALSE
    /\ sent = <<>>
    /\ delivered = <<>>
    /\ completed = 0
    /\ errored = 0
    /\ uploadedFile = "null"
    /\ upload = NoUpload
    /\ requests = <<>>
    /\ outcome = NoOutcome
    /\ dateNow = Epoch
    /\ loading = {}

\* a tab with no session yet
InitStream ==
    /\ InitStore
    /\ InitUI
    /\ currentSessionId = "null"
    /\ script = <<>>

NextStream ==
    \/ \E content \in Questions, created \in BOOLEAN : HandleSendMessage(content, created)
    \/ FetchOk
    \/ FetchFail
    \/ \E line \in StreamLines : ServerSend(line)
    \/ ServerClose
    \/ \E eager \in BOOLEAN, elapsed \in 0..1 : Read(Len(wire), eager, elapsed)
    \/ \E eager \in BOOLEAN : ReadDone(eager)
    \/ \E eager \in BOOLEAN : ReadFail(eager)
    \/ RenderMessages
    \/ SaveGetDoc
    \/ SaveSetDoc

SpecStream == InitStream /\ [][NextStream]_vars

\* the same tab, with a backend whose body has ignored chunks, bad lines and
\* keep-alives, and a network that splits the body anywhere
NextReader ==
    \/ \E content \in Questions : HandleSendMessage(content, TRUE)
    \/ FetchOk
    \/ FetchFail
    \/ \E line \in ReaderLines : ServerSend(line)
    \/ ServerClose
    \/ \E line \in ReaderLines : ServerCloseUnterminated(line)
    \/ \E n \in 1..MaxWire, eager \in BOOLEAN : Read(n, eager, 0)
    \/ \E eager \in BOOLEAN : ReadDone(eager)
    \/ \E eager \in BOOLEAN : ReadFail(eager)
    \/ RenderMessages
    \/ SaveGetDoc
    \/ SaveSetDoc

SpecReader == InitStream /\ [][NextReader]_vars

\* the chunk order of an analysis with one code block and a closing text
CodeAnswerScript ==
    <<"analysis_start", "code_complete_display", "code_execution_result",
      "text_stream:Done", "analysis_complete">>

InitScript ==
    /\ InitStore
    /\ InitUI
    /\ currentSessionId = "null"
    /\ script = CodeAnswerScript

NextScript ==
    \/ \E content \in Questions, created \in BOOLEAN : HandleSendMessage(content, created)
    \/ FetchOk
    \/ ServerSendScripted
    \/ ServerClose
    \/ \E n \in 1..MaxWire, eager \in BOOLEAN, elapsed \in 0..1 : Read(n, eager, elapsed)
    \/ \E eager \in BOOLEAN : ReadDone(eager)
    \/ RenderMessages
    \/ SaveGetDoc
    \/ SaveSetDoc

SpecScript == InitScript /\ [][NextScript]_vars

(* ------------------------------------------------------------------ *)
(* Properties of the streaming response                                *)
(* ------------------------------------------------------------------ *)
\* the assistant message the stream assembles
Target == messages[TargetIndex(messages)]

\* the stream has ended and every updater has run
Settled == reader = "complete" /\ queue = <<>>

IsText(key) == ChunkOf(key).type = "text_stream"

RECURSIVE ConcatText(_)
ConcatText(keys) ==
    IF keys = <<>> THEN <<>>
    ELSE (IF IsText(Head(keys)) THEN ChunkOf(Head(keys)).content ELSE <<>>)
         \o ConcatText(Tail(keys))

\* whether a code block is executing after the first n delivered chunks
RECURSIVE ExecutingAfter(_, _)
ExecutingAfter(keys, n) ==
    IF n = 0 THEN FALSE
    ELSE LET chunk == ChunkOf(keys[n]) IN
         CASE chunk.type = "code_complete_display" -> TRUE
           [] chunk.type \in {"code_execution_result", "error"} -> FALSE
           [] chunk.type = "analysis_complete" /\ chunk.codeExecution.present -> FALSE
           [] OTHER -> ExecutingAfter(keys, n - 1)

\* C1: text_stream chunks that arrive with no code block, then the end of the
\* stream: the content of the target message is the concatenation of the
\* chunk contents in order (after the placeholder the message starts with,
\* or in its place).
C1_TextConcatenation ==
    (Settled /\ delivered # <<>> /\ \A i \in 1..Len(delivered) : IsText(delivered[i]))
        => Target.content \in {ConcatText(delivered), Placeholder \o ConcatText(delivered)}

\* C2: a text_stream chunk that arrives while a code block is executing and
\* before its code_execution_result is not in the content while the block
\* executes, and is in the final content after the stream has ended.
C2_BufferedTextKept ==
    /\ (reader = "reading" /\ Target.codeExecution.isExecuting)
          => \A k \in {"text_stream:Done", "text_stream:b"} :
                \A p \in 1..Len(Target.content) : Target.content[p] # ChunkOf(k).content[1]
    /\ Settled =>
          \A i \in 1..Len(delivered) :
             (/\ IsText(delivered[i])
              /\ ExecutingAfter(delivered, i - 1)
              /\ \E j \in (i + 1)..Len(delivered) :
                    /\ delivered[j] = "code_execution_result"
                    /\ \A m \in i..(j - 1) : ExecutingAfter(delivered, m))
             => \E p \in 1..Len(Target.content) :
                   Target.content[p] = ChunkOf(delivered[i]).content[1]

\* C3: after the chunks analysis_start, code_complete_display,
\* code_execution_result, text_stream("Done"), analysis_complete and the end
\* of the stream, the target message no longer shows the placeholder, has a
\* code block that is not executing, and its content is "Done".
C3_CodeAnswerFinalMessage ==
    (Settled /\ delivered = CodeAnswerScript)
        => /\ Target.content # Placeholder
           /\ Target.codeExecution.present
           /\ ~Target.codeExecution.isExecuting
           /\ Target.content = <<"Done">>

IsPrefix(a, b) == Len(a) <= Len(b) /\ a = SubSeq(b, 1, Len(a))

\* C4: a data line whose JSON does not parse neither ends the stream nor
\* calls onError: every chunk written as a whole data line, before or after
\* it, is handed to onChunk in order, and onComplete runs at the end.
C4_MalformedLineSkipped ==
    /\ reader \in {"reading", "complete"} => errored = 0
    /\ IsPrefix(delivered, SentKeys)
    /\ reader = "complete" => (delivered = SentKeys /\ completed = 1)

C4_Witness ==
    /\ reader = "complete"
    /\ completed = 1
    /\ \E i, j \in 1..Len(sent) : i < j /\ sent[i] = "malformed" /\ sent[j] \in ChunkKeys
    /\ delivered = SentKeys

AssistantCount(msgs) == Cardinality({i \in 1..Len(msgs) : msgs[i].type = "assistant"})

\* C5: in a persisted session no chunk writes to the store; at the end of
\* the stream the textBuffer is flushed before addMessage is called, and
\* addMessage is called once and appends one assistant record.
C5_OneFinalRecord ==
    (reader # "idle" /\ ~IsTemp(sessionId)) =>
        /\ reader \in {"fetch", "reading", "failed"} =>
              /\ calls["c1"].pc = "idle"
              /\ AssistantCount(appended[sessionId]) = 0
              /\ Len(sessions[sessionId].messages) = 1
        /\ reader = "complete" =>
              /\ textBuffer = <<>>
              /\ AssistantCount(appended[sessionId]) = 1
              /\ calls["c1"].pc # "idle" => Len(sessions[sessionId].messages) = 1
              /\ calls["c1"].pc = "idle" =>
                    /\ Len(sessions[sessionId].messages) = 2
                    /\ AssistantCount(sessions[sessionId].messages) = 1

C5_Witness ==
    /\ reader = "complete"
    /\ ~IsTemp(sessionId)
    /\ calls["c1"].pc = "idle"
    /\ \E i \in 1..Len(delivered) : IsText(delivered[i])
    /\ \A i \in 1..Len(delivered) : ChunkOf(delivered[i]).type # "analysis_complete"
    /\ AssistantCount(sessions[sessionId].messages) = 1

\* C6: once an error chunk has been processed the target message shows the
\* error text with its streaming and executing flags cleared, and nothing
\* that follows, chunk or end-of-stream flush, changes it.
C6_ErrorIsFinal ==
    (reader \in {"reading", "complete"} /\ queue = <<>>
     /\ \E i \in 1..Len(delivered) : delivered[i] = "error")
        => /\ Target.content = ChunkOf("error").content
           /\ ~Target.isStreaming
           /\ ~Target.codeExecution.isExecuting

(* ------------------------------------------------------------------ *)
(* The persistence adapter on its own: clients of two tabs             *)
(* ------------------------------------------------------------------ *)
\* the messages the clients append
StoreMessages(sid) ==
    {TextMessage(sid, User, "user", <<"m1">>),
     ChatMessage(sid, User, "assistant", <<"m2">>, ChartPayload, NoTableData,
                 NoFollowUps, NoFileInfo, NoCodeExecution)}

\* the ids a client can hold: of documents that exist, and stale ones
KnownIds == {s \in SessionIds : sessions[s].exists} \cup StaleIds

\* store writes made or under way
OpsUsed == clock + Cardinality({c \in Callers : calls[c].pc # "idle"})

idleUI == <<uiVars, readerVars>>

StoreCreate ==
    /\ OpsUsed < MaxOps
    /\ \E u \in UserIds : CreateChatSession(u, "title")
    /\ UNCHANGED idleUI

StoreAddMessage ==
    /\ OpsUsed < MaxOps
    /\ \E c \in Callers, sid \in KnownIds : \E m \in StoreMessages(sid) : AddMessageCall(c, m)
    /\ UNCHANGED idleUI

StoreGetDoc == (\E c \in Callers : AddMessageGetDoc(c)) /\ UNCHANGED idleUI

StoreSetDoc == (\E c \in Callers : AddMessageSetDoc(c)) /\ UNCHANGED idleUI

\* handleDeleteChatConfirm: a session of the history list
StoreDelete ==
    /\ OpsUsed < MaxOps
    /\ \E sid \in {s \in SessionIds : sessions[s].exists} : DeleteChatSession(sid)
    /\ UNCHANGED idleUI

StoreUpdate ==
    /\ OpsUsed < MaxOps
    /\ \E sid \in KnownIds : UpdateChatSession(sid)
    /\ UNCHANGED idleUI

InitStoreOnly ==
    /\ InitStore
    /\ InitUI
    /\ currentSessionId = "null"
    /\ script = <<>>

NextStore ==
    \/ StoreCreate
    \/ StoreAddMessage
    \/ StoreGetDoc
    \/ StoreSetDoc
    \/ StoreDelete
    \/ StoreUpdate

SpecStore == InitStoreOnly /\ [][NextStore]_vars

\* the operations of a behaviour that appends payload messages
MaxPayloadOps == 3

\* one client appending messages with chart and table payloads of every
\* JSON kind
ChartPayloads ==
    {JNull, JBool(FALSE), JBool(TRUE), JNum(0), JNum(1), JStr(<<>>), JStr(<<"a">>),
     JArr(<<>>), JArr(<<JArr(<<JNum(1), JNum(2)>>), JArr(<<>>)>>),
     JObj(JArr(<<JStr(<<"x">>), JNull>>))}

TablePayloads ==
    {NoTableData,
     TableData(JArr(<<>>), <<>>, "f.csv"),
     TableData(JArr(<<JArr(<<JNum(1), JStr(<<"a">>)>>), JObj(JNum(0))>>), <<"c1">>, "f.csv")}

PayloadMessages(sid) ==
    {ChatMessage(sid, User, "assistant", <<"m">>, chart, table,
                 NoFollowUps, NoFileInfo, NoCodeExecution) :
        chart \in ChartPayloads, table \in TablePayloads}

PayloadAddMessage ==
    /\ OpsUsed < MaxPayloadOps
    /\ \E sid \in KnownIds : \E m \in PayloadMessages(sid) : AddMessageCall("c1", m)
    /\ UNCHANGED idleUI

NextPayload ==
    \/ StoreCreate
    \/ PayloadAddMessage
    \/ StoreGetDoc
    \/ StoreSetDoc

SpecPayload == InitStoreOnly /\ [][NextPayload]_vars

(* ------------------------------------------------------------------ *)
(* Properties of the persistence adapter                               *)
(* ------------------------------------------------------------------ *)
NoCallOn(s) == \A c \in Callers : calls[c].pc = "idle" \/ calls[c].message.sessionId # s

\* C7: what getMessages returns for a message has the chartData and
\* the tableData that were passed to addMessage, for JSON values.
C7_PayloadRoundTrip ==
    \A s \in SessionIds :
        (NoCallOn(s) /\ s \notin overlapped) =>
            \A i \in 1..Len(appended[s]) :
                /\ Len(GetMessages(s)) = Len(appended[s])
                /\ appended[s][i].chartData.t # "undefined"
                      => GetMessages(s)[i].chartData = appended[s][i].chartData
                /\ appended[s][i].tableData.t = "table"
                      => GetMessages(s)[i].tableData = appended[s][i].tableData

\* what getMessages returns for a message passed to addMessage whose
\* payloads survive: absent payloads come back as null
Returned(m) ==
    [m EXCEPT !.chartData = IF @.t = "undefined" THEN JNull ELSE @,
              !.tableData = IF @.t = "undefined" THEN NullTableData ELSE @]

C9_WritesBackSnapshot ==
    [][\A c \in Callers :
          (calls[c].pc = "setDoc" /\ calls'[c].pc = "idle") =>
              sessions'[calls[c].message.sessionId].messages =
                  Append(calls[c].snap.messages, SanitizedMessage(calls[c].message))]_vars

C9_LostUpdate ==
    \E s \in SessionIds :
        /\ NoCallOn(s)
        /\ s \in overlapped
        /\ Len(appended[s]) = 2
        /\ writes[s] = <<"create", "add", "add">>
        /\ Len(sessions[s].messages) = 1

Listed(s) ==
    \E u \in UserIds : \E i \in 1..Len(GetChatSessions(u)) : GetChatSessions(u)[i] = s

\* the step is the write of an addMessage that read s before s existed
StaleCreateWrite(s) ==
    \E c \in Callers :
        /\ calls[c].pc = "setDoc"
        /\ calls[c].message.sessionId = s
        /\ ~calls[c].snap.exists
        /\ calls'[c].pc = "idle"

\* C10: getChatSessions returns no session whose status is 'deleted', and a
\* deleted session stays deleted, so stays out of the list, through every
\* later operation, appends included (the one write that replaces the
\* document is that of an append that read it before it existed).
C10_DeletedNeverListed ==
    /\ [](\A s \in SessionIds : Listed(s) => sessions[s].status # "deleted")
    /\ [][\A s \in SessionIds :
             sessions[s].status = "deleted" =>
                 (sessions'[s].status = "deleted" \/ StaleCreateWrite(s))]_vars

C10_Witness ==
    \E s \in SessionIds :
        /\ \E i, j \in 1..Len(writes[s]) :
              i < j /\ writes[s][i] = "delete" /\ writes[s][j] = "add"
        /\ sessions[s].status = "deleted"
        /\ sessions[s].userId \in UserIds
        /\ Len(sessions[s].messages) >= 1
        /\ ~Listed(s)

\* the step is a completed deleteChatSession on s
DeleteStep(s) == writes'[s] = Append(writes[s], "delete")

\* C11: deleteChatSession sets the status to 'deleted' and takes nothing
\* away: the record exists afterwards, owner, title, file reference and
\* message list are as before, and getMessages returns what it returned.
C11_SoftDeleteKeepsData ==
    [][\A s \in SessionIds :
          DeleteStep(s) =>
              /\ sessions'[s].exists
              /\ sessions'[s].status = "deleted"
              /\ sessions'[s].userId = sessions[s].userId
              /\ sessions'[s].title = sessions[s].title
              /\ sessions'[s].fileId = sessions[s].fileId
              /\ sessions'[s].fileName = sessions[s].fileName
              /\ sessions'[s].fileUrl = sessions[s].fileUrl
              /\ sessions'[s].messages = sessions[s].messages
              /\ MessagesOfDoc(sessions'[s]) = GetMessages(s)]_vars

C11_Witness ==
    \E s \in SessionIds :
        /\ writes[s] # <<>>
        /\ writes[s][Len(writes[s])] = "delete"
        /\ \E i \in 1..Len(writes[s]) : writes[s][i] = "update"
        /\ sessions[s].status = "deleted"
        /\ sessions[s].fileId \in Files
        /\ Len(GetMessages(s)) >= 1

\* the step is the write of an addMessage on s
AddStep(s) == writes'[s] = Append(writes[s], "add")

\* C12: updatedAt of a session never goes back, and the write of every
\* addMessage sets it to the store's time of that write.
C12_UpdatedAtMonotone ==
    [][\A s \in SessionIds :
          /\ sessions'[s].updatedAt >= sessions[s].updatedAt
          /\ AddStep(s) =>
                /\ clock' > clock
                /\ sessions'[s].updatedAt = clock']_vars

C12_Witness ==
    \E s \in SessionIds :
        /\ Len(writes[s]) >= 3
        /\ writes[s][Len(writes[s])] = "add"
        /\ \E i \in 1..Len(writes[s]) : writes[s][i] \in {"update", "delete"}
        /\ sessions[s].updatedAt = clock
        /\ sessions[s].updatedAt > sessions[s].createdAt

(* ------------------------------------------------------------------ *)
(* Further properties of the streaming response                        *)
(* ------------------------------------------------------------------ *)
TextKeys == {k \in ChunkKeys : IsText(k)}

\* the two messages differ in their text content at most
SameButContent(a, b) == [a EXCEPT !.content = b.content] = b

\* C13: a text_stream chunk changes at most the text content of the target
\* message; the chart, table and code-block fields set by earlier chunks
\* stay as they are.
C13_TextKeepsPayloads ==
    /\ [](reader = "reading" =>
             \A k \in TextKeys :
                SameButContent(ChunkSwitch(Target, ChunkOf(k), textBuffer).msg, Target))
    /\ [][(/\ reader = "reading"
           /\ queue = <<>> /\ queue' = <<>>
           /\ \E k \in TextKeys : delivered' = Append(delivered, k))
              => SameButContent(Target', Target)]_vars

C13_Witness ==
    /\ reader = "reading"
    /\ queue = <<>>
    /\ Len(delivered) = 3
    /\ delivered[1] = "chart_generated"
    /\ delivered[2] = "code_complete_display"
    /\ IsText(delivered[3])
    /\ Target.chartData = ChartPayload
    /\ Target.codeExecution.present

(* ------------------------------------------------------------------ *)
(* ChatInterface: file upload                                          *)
(* ------------------------------------------------------------------ *)
\* the id of the progress message of an upload (Date.now() at its start)
UploadMessageId(file) == IF file = "f1" THEN "upload:f1" ELSE "upload:f2"

UploadProgressText == <<"uploading...">>

UploadSuccessText == <<"uploaded">>

\* error.message of the step that threw
UploadErrors == [storage |-> "Storage not available", backend |-> "upload failed"]

UploadStartMessage(file) ==
    Message(UploadMessageId(file), "assistant", UploadProgressText, FALSE)

\* lines 1355-1371: the message that replaces the progress message
UploadMessage(file) ==
    [Message(UploadMessageId(file), "assistant", UploadSuccessText, FALSE)
        EXCEPT !.fileInfo = [def |-> TRUE, file_id |-> file, filename |-> file],
               !.tableData = TableData(JArr(<<JArr(<<JNum(1)>>)>>), <<"c1">>, file)]

\* a catch that shows the success message
UploadErrorMessageAsSuccess(file, error) == UploadMessage(file)

\* lines 1408-1413: the message of the catch
UploadErrorMessage(file, error) ==
    Message(UploadMessageId(file), "assistant", <<"upload error: ", error>>, FALSE)

\* prev.map(msg => msg.id === id ? replacement : msg)
ReplaceById(msgs, replacement) ==
    [i \in 1..Len(msgs) |-> IF msgs[i].id = replacement.id THEN replacement ELSE msgs[i]]

\* the id of the fileMetadata document of an uploaded file (fileMetadata.id)
MetadataId(file) == IF file = "f1" THEN "meta:f1" ELSE "meta:f2"

\* a handler that keeps the file that was active
ActiveFileKeepsFirst(current, file) == IF current = "null" THEN file ELSE current

\* lines 1336-1344: setUploadedFile with the file_id of the backend's response
ActiveFileAfterUpload(current, file) == file

\* the record of a chat message passed to addMessage by handleFileUpload
UploadRecord(sid, m) ==
    ChatMessage(sid, User, m.type, m.content, JUndefined, m.tableData,
                NoFollowUps, m.fileInfo, NoCodeExecution)

\* handleFileUpload, lines 1294-1324, up to the await of the storage upload;
\* created says whether createChatSession resolved or threw
HandleFileUpload(file, created) ==
    /\ upload.pc = "idle"
    /\ clock < MaxOps
    /\ \A i \in 1..Len(messages) : messages[i].id # UploadMessageId(file)
    /\ LET needsSession == currentSessionId = "null"
           sid == IF ~needsSession THEN currentSessionId
                  ELSE IF created THEN FreshId ELSE TempSessionId
       IN /\ created => (needsSession
                         /\ \E s \in GeneratedIds : ~sessions[s].exists)
          /\ IF needsSession /\ created
             THEN CreateChatSession(User, "New Chat")
             ELSE UNCHANGED storeVars
          /\ currentSessionId' = sid
          /\ upload' = [pc |-> "storage", file |-> file, sessionId |-> sid, result |-> "none"]
          /\ messages' = Append(messages, UploadStartMessage(file))
    /\ UNCHANGED <<queue, renderPending, textBuffer, finalAssistantMessage, sessionId,
                   uploadedFile, requests, outcome, dateNow, loading, readerVars>>

\* the catch of handleFileUpload, lines 1405-1432
UploadCatch(error) ==
    LET sid == upload.sessionId
        m == UploadErrorMessage(upload.file, error)
        record == UploadRecord(sid, m)
        save == SavesMessage(sid)
    IN /\ messages' = ReplaceById(messages, m)
       /\ upload' = [upload EXCEPT !.pc = "idle", !.result = "failed"]
       /\ clock' = IF save THEN clock + 1 ELSE clock
       /\ sessions' = IF save THEN AddMessageNow(sessions, record, clock + 1) ELSE sessions
       /\ appended' = IF save THEN [appended EXCEPT ![sid] = Append(@, record)] ELSE appended
       /\ writes' = IF save THEN [writes EXCEPT ![sid] = Append(@, "add")] ELSE writes
       /\ UNCHANGED <<calls, overlapped, queue, renderPending, textBuffer,
                      finalAssistantMessage, currentSessionId, sessionId,
                      uploadedFile, requests, outcome, dateNow, loading, readerVars>>

\* firestoreService.uploadFile resolves or throws, line 1329
UploadStorage(ok) ==
    /\ upload.pc = "storage"
    /\ IF ok
       THEN /\ upload' = [upload EXCEPT !.pc = "backend"]
            /\ UNCHANGED <<storeVars, messages, queue, renderPending, textBuffer,
                           finalAssistantMessage, currentSessionId, sessionId,
                           uploadedFile, requests, outcome, dateNow, loading, readerVars>>
       ELSE UploadCatch(UploadErrors.storage)

\* apiService.uploadFile resolves or throws, line 1333, and the rest of the
\* handler: lines 1336-1402
UploadBackend(ok) ==
    /\ upload.pc = "backend"
    /\ IF ok
       THEN LET sid == upload.sessionId
                m == UploadMessage(upload.file)
                record == UploadRecord(sid, m)
                save == SavesMessage(sid)
                added == AddMessageNow(sessions, record, clock + 1)
            IN /\ uploadedFile' = ActiveFileAfterUpload(uploadedFile, upload.file)
               /\ messages' = ReplaceById(messages, m)
               /\ upload' = [upload EXCEPT !.pc = "idle", !.result = "ok"]
               /\ clock' = IF save THEN clock + 2 ELSE clock
               /\ sessions' = IF save
                              THEN [added EXCEPT ![sid] =
                                             FileInfoUpdate(@, MetadataId(upload.file), clock + 2)]
                              ELSE sessions
               /\ appended' = IF save THEN [appended EXCEPT ![sid] = Append(@, record)]
                              ELSE appended
               /\ writes' = IF save THEN [writes EXCEPT ![sid] = @ \o <<"add", "update">>]
                            ELSE writes
               /\ UNCHANGED <<calls, overlapped, queue, renderPending, textBuffer,
                              finalAssistantMessage, currentSessionId, sessionId,
                              requests, outcome, dateNow, loading, readerVars>>
       ELSE UploadCatch(UploadErrors.backend)

(* ------------------------------------------------------------------ *)
(* ChatInterface: page load, new chat, session switch, delete          *)
(* ------------------------------------------------------------------ *)
WelcomeMessage == Message("1", "assistant", <<"welcome">>, FALSE)

\* initializeChatSession, lines 360-418, with no saved session: the welcome screen
InitializeChatSession ==
    /\ messages = <<>>
    /\ currentSessionId = "null"
    /\ reader = "idle"
    /\ upload = NoUpload
    /\ messages' = <<WelcomeMessage>>
    /\ UNCHANGED <<storeVars, queue, renderPending, textBuffer, finalAssistantMessage,
                   currentSessionId, sessionId, chatVars, readerVars>>

\* handleNewChat, lines 821-851
HandleNewChat ==
    /\ currentSessionId' = "null"
    /\ messages' = <<WelcomeMessage>>
    /\ uploadedFile' = "null"
    /\ UNCHANGED <<storeVars, queue, renderPending, textBuffer, finalAssistantMessage,
                   sessionId, upload, requests, outcome, dateNow, loading, readerVars>>

\* lines 543-571: a stored message as a message of the list
ConvertedMessage(msg) ==
    [id |-> "loaded", type |-> msg.type, content |-> msg.content, isStreaming |-> FALSE,
     codeExecution |-> msg.codeExecution, chartData |-> msg.chartData,
     followUpQuestions |-> msg.followUpQuestions, fileInfo |-> msg.fileInfo,
     tableData |-> msg.tableData]

\* lines 541-616: the file of the first message that has one, else the
\* file of the session document, else none
RestoredFile(loaded, doc) ==
    LET withFile == {i \in 1..Len(loaded) :
                        loaded[i].fileInfo.def /\ loaded[i].fileInfo.file_id # ""}
    IN IF withFile # {}
       THEN loaded[CHOOSE i \in withFile : \A j \in withFile : i <= j].fileInfo.file_id
       ELSE IF doc.exists /\ doc.fileId # "undefined" /\ doc.fileName # "undefined"
       THEN doc.fileId
       ELSE "null"

\* handleSessionClick, lines 514-626: a session of the history list, or the
\* saved one on page load
HandleSessionClick(sid) ==
    /\ sid # currentSessionId
    /\ sid \in StaleIds \/ Listed(sid)
    /\ currentSessionId' = sid
    /\ LET loaded == GetMessages(sid)
       IN IF Len(loaded) = 0
          THEN /\ messages' = <<>>
               /\ uploadedFile' = "null"
          ELSE /\ messages' = [i \in 1..Len(loaded) |-> ConvertedMessage(loaded[i])]
               /\ uploadedFile' = RestoredFile(loaded, sessions[sid])
    /\ UNCHANGED <<storeVars, queue, renderPending, textBuffer, finalAssistantMessage,
                   sessionId, upload, requests, outcome, dateNow, loading, readerVars>>

\* handleDeleteChatConfirm, lines 662-686: a session of the history list
HandleDeleteChatConfirm(sid) ==
    /\ Listed(sid)
    /\ DeleteChatSession(sid)
    /\ IF currentSessionId = sid
       THEN /\ currentSessionId' = "null"
            /\ messages' = <<>>
            /\ uploadedFile' = "null"
       ELSE UNCHANGED <<currentSessionId, messages, uploadedFile>>
    /\ UNCHANGED <<queue, renderPending, textBuffer, finalAssistantMessage,
                   sessionId, upload, requests, outcome, dateNow, loading, readerVars>>

\* one tab: the user moves between chats, uploads files, deletes chats and
\* then asks a question
NextChat ==
    \/ InitializeChatSession
    \/ reader = "idle" /\ HandleNewChat
    \/ reader = "idle" /\ \E sid \in SessionIds : HandleSessionClick(sid)
    \/ \E sid \in SessionIds : HandleDeleteChatConfirm(sid)
    \/ \E file \in Files, created \in BOOLEAN : HandleFileUpload(file, created)
    \/ \E ok \in BOOLEAN : UploadStorage(ok)
    \/ \E ok \in BOOLEAN : UploadBackend(ok)
    \/ \E content \in Questions, created \in BOOLEAN : HandleSendMessage(content, created)

SpecChat == InitStream /\ [][NextChat]_vars

(* ------------------------------------------------------------------ *)
(* Properties of the chat controller                                   *)
(* ------------------------------------------------------------------ *)
\* the step is the end of a handleFileUpload with the given result
UploadEnds(result) ==
    upload.pc \in {"storage", "backend"} /\ upload'.pc = "idle" /\ upload'.result = result

\* the step sends a question
RequestStep == Len(requests') = Len(requests) + 1

\* C14: a successful upload makes its file the active file, whatever file
\* was active, and a question submitted afterwards carries the file id that
\* is active then, not that of the file it replaced.
C14_ReuploadReplaces ==
    /\ [][UploadEnds("ok") => uploadedFile' = upload.file]_vars
    /\ [][RequestStep => requests'[Len(requests')].file_id = uploadedFile]_vars

C14_Witness ==
    /\ uploadedFile = "f2"
    /\ Len(requests) = 1
    /\ requests[1].file_id = "f2"
    /\ \E i, j \in 1..Len(messages) :
          /\ i < j
          /\ messages[i].fileInfo.def /\ messages[i].fileInfo.file_id = "f1"
          /\ messages[j].fileInfo.def /\ messages[j].fileInfo.file_id = "f2"

C18_LazyCreation ==
    [][\A s \in SessionIds :
          /\ (~sessions[s].exists /\ sessions'[s].exists) => RequestStep
          /\ sessions[s].exists => sessions'[s].exists]_vars

\* C19: when the request fails before any chunk has arrived, the target
\* message shows the failure message in place of the placeholder and the
\* request has been sent once.
C19_FetchFailure ==
    (reader = "failed" /\ delivered = <<>> /\ queue = <<>>) =>
        /\ Target.content = StreamErrorText
        /\ Target.content # Placeholder
        /\ errored = 1
        /\ Len(requests) = 1

C19_Witness ==
    /\ reader = "failed"
    /\ sent = <<>>
    /\ delivered = <<>>
    /\ queue = <<>>
    /\ Target.content = StreamErrorText
    /\ Len(requests) = 1


(* ------------------------------------------------------------------ *)
(* Adapter calls on a store that can fail                               *)
(* ------------------------------------------------------------------ *)
\* lib/firebase: `const db = getFirestore(app)`, an object in every build
Db == TRUE

\* the promise of an adapter call resolves with a value
Resolves(op, failed, id, ids, msgs) ==
    [op |-> op, failed |-> failed, threw |-> FALSE, id |-> id, ids |-> ids, messages |-> msgs]

\* the promise of an adapter call rejects: the store's error reaches the caller
Rejects(op) ==
    [op |-> op, failed |-> TRUE, threw |-> TRUE, id |-> "none", ids |-> <<>>, messages |-> <<>>]

\* a createChatSession whose catch returns '' instead of rethrowing
CreateChatSessionSwallows(db, ok, id) ==
    IF db /\ ok THEN Resolves("createChatSession", FALSE, id, <<>>, <<>>)
    ELSE Resolves("createChatSession", ~ok, "", <<>>, <<>>)

\* createChatSession, lines 309-330: what the caller gets; ok = addDoc resolved
CreateChatSessionOutcome(db, ok, id) ==
    IF ~db THEN Resolves("createChatSession", FALSE, "", <<>>, <<>>)
    ELSE IF ok THEN Resolves("createChatSession", FALSE, id, <<>>, <<>>)
    ELSE Rejects("createChatSession")

\* getChatSessions, lines 332-343: no try around getDocs
GetChatSessionsOutcome(ok, userId) ==
    IF ok THEN Resolves("getChatSessions", FALSE, "none", GetChatSessions(userId), <<>>)
    ELSE Rejects("getChatSessions")

\* getChatSession, lines 345-360: the catch returns null
GetChatSessionOutcome(ok, sid) ==
    IF ok THEN Resolves("getChatSession", FALSE,
                        IF sessions[sid].exists THEN sid ELSE "null", <<>>, <<>>)
    ELSE Resolves("getChatSession", TRUE, "null", <<>>, <<>>)

\* getMessages, lines 458-541: getDoc is awaited outside any try
GetMessagesOutcome(db, ok, sid) ==
    IF ~db THEN Resolves("getMessages", FALSE, "none", <<>>, <<>>)
    ELSE IF ok THEN Resolves("getMessages", FALSE, "none", <<>>, GetMessages(sid))
    ELSE Rejects("getMessages")

\* addMessage, lines 389-456: the catch logs and rethrows
AddMessageOutcome(ok) ==
    IF ok THEN Resolves("addMessage", FALSE, "messageId", <<>>, <<>>)
    ELSE Rejects("addMessage")

callerUI == <<messages, queue, renderPending, textBuffer, finalAssistantMessage,
              currentSessionId, sessionId, uploadedFile, upload, requests, dateNow, loading, readerVars>>

\* the store writes of a behaviour with failing calls
MaxFaultOps == 3

RECURSIVE AddMessageCalls(_)
AddMessageCalls(ids) ==
    IF ids = {} THEN 0
    ELSE LET s == CHOOSE x \in ids : TRUE
         IN Len(appended[s]) + AddMessageCalls(ids \ {s})

\* records created and addMessage calls made so far
FaultOps ==
    Cardinality({s \in GeneratedIds : sessions[s].exists}) + AddMessageCalls(SessionIds)

FaultyCreate ==
    /\ FaultOps < MaxFaultOps
    /\ \E u \in UserIds, ok \in BOOLEAN :
          /\ ok => \E s \in GeneratedIds : ~sessions[s].exists
          /\ outcome' = CreateChatSessionOutcome(Db, ok, IF ok THEN FreshId ELSE "none")
          /\ IF ok THEN CreateChatSession(u, "New Chat") ELSE UNCHANGED storeVars
    /\ UNCHANGED callerUI

FaultyGetChatSessions ==
    /\ \E u \in UserIds, ok \in BOOLEAN : outcome' = GetChatSessionsOutcome(ok, u)
    /\ UNCHANGED <<storeVars, callerUI>>

FaultyGetChatSession ==
    /\ \E sid \in SessionIds, ok \in BOOLEAN : outcome' = GetChatSessionOutcome(ok, sid)
    /\ UNCHANGED <<storeVars, callerUI>>

FaultyGetMessages ==
    /\ \E sid \in SessionIds, ok \in BOOLEAN : outcome' = GetMessagesOutcome(Db, ok, sid)
    /\ UNCHANGED <<storeVars, callerUI>>

FaultyAddMessage ==
    /\ FaultOps < MaxFaultOps
    /\ \E sid \in KnownIds :
          /\ \E m \in StoreMessages(sid) : AddMessageCall("c1", m)
    /\ UNCHANGED idleUI

FaultyGetDoc == AddMessageGetDoc("c1") /\ UNCHANGED idleUI

FaultySetDoc ==
    /\ AddMessageSetDoc("c1")
    /\ outcome' = AddMessageOutcome(TRUE)
    /\ UNCHANGED callerUI

\* getDoc or setDoc of an addMessage rejects
AddMessageRejects ==
    /\ calls["c1"].pc \in {"getDoc", "setDoc"}
    /\ calls' = [calls EXCEPT !["c1"] = IdleCall]
    /\ outcome' = AddMessageOutcome(FALSE)
    /\ UNCHANGED <<sessions, clock, appended, overlapped, writes, callerUI>>

NextFaults ==
    \/ FaultyCreate
    \/ FaultyGetChatSessions
    \/ FaultyGetChatSession
    \/ FaultyGetMessages
    \/ FaultyAddMessage
    \/ FaultyGetDoc
    \/ FaultySetDoc
    \/ AddMessageRejects

SpecFaults == InitStoreOnly /\ [][NextFaults]_vars

\* a createChatSession call ends in this step
CreateEnds == outcome' # outcome /\ outcome'.op = "createChatSession"

\* C16: every createChatSession call either inserts a new active session
\* record with an empty message list and returns that record's generated id,
\* or propagates an error to its caller; it never returns normally without
\* having created a record.
C16_CreateNeverSilent ==
    [][CreateEnds =>
         \/ outcome'.threw
         \/ /\ outcome'.id \in GeneratedIds
            /\ ~sessions[outcome'.id].exists
            /\ sessions'[outcome'.id].exists
            /\ sessions'[outcome'.id].status = "active"
            /\ sessions'[outcome'.id].messages = <<>>]_vars

\* a createChatSession has failed after another one had created a record
C16_Witness ==
    /\ outcome.op = "createChatSession"
    /\ outcome.threw
    /\ \E s \in GeneratedIds : sessions[s].exists /\ sessions[s].messages = <<>>

\* the operations the error policy says degrade
DegradingOps == {"getChatSessions", "getChatSession", "getMessages", "addMessage"}

\* C17: getChatSessions, getChatSession, getMessages and addMessage degrade
\* on a store failure to an empty result (empty list, null, no-op) instead of
\* propagating the error to the caller.
C17_DegradesToEmpty ==
    (outcome.failed /\ outcome.op \in DegradingOps) =>
        /\ ~outcome.threw
        /\ outcome.ids = <<>>
        /\ outcome.messages = <<>>
        /\ outcome.id \in {"null", "none"}


(* ------------------------------------------------------------------ *)
(* A question asked in a chat that already has messages                 *)
(* ------------------------------------------------------------------ *)
\* the longest stored chat
MaxHistory == 11

HistorySession == "s1"

\* the i-th message of the stored chat
HistoryMessage(i, type) == TextMessage(HistorySession, User, type, <<ToString(i)>>)

\* addMessage called once per message, in order
RECURSIVE StoreAfter(_, _, _)
StoreAfter(store, msgs, now) ==
    IF msgs = <<>> THEN store
    ELSE StoreAfter(AddMessageNow(store, Head(msgs), now + 1), Tail(msgs), now + 1)

\* a fresh tab of a user who has one stored chat of n messages
InitHistory ==
    /\ \E n \in 0..MaxHistory : \E types \in [1..n -> {"user", "assistant"}] :
          LET msgs == [i \in 1..n |-> HistoryMessage(i, types[i])]
              created == [NoSessions EXCEPT ![HistorySession] = CreatedDoc(User, "title", 1)]
          IN /\ sessions = StoreAfter(created, msgs, 1)
             /\ clock = n + 1
             /\ appended = [s \in SessionIds |-> IF s = HistorySession THEN msgs ELSE <<>>]
             /\ writes = [s \in SessionIds |->
                            IF s = HistorySession
                            THEN <<"create">> \o [i \in 1..n |-> "add"] ELSE <<>>]
    /\ calls = [c \in Callers |-> IdleCall]
    /\ overlapped = {}
    /\ InitUI
    /\ currentSessionId = "null"
    /\ script = <<>>

NextHistory ==
    \/ InitializeChatSession
    \/ reader = "idle" /\ HandleSessionClick(HistorySession)
    \/ \E content \in Questions, created \in BOOLEAN : HandleSendMessage(content, created)
    \/ FetchFail

SpecHistory == InitHistory /\ [][NextHistory]_vars

\* the number of messages of the list before the question was submitted
Prior == Len(messages) - 2

\* C20: the conversation history sent with a question never has more than
\* 10 entries and is exactly the last min(10, n) of the n messages that were
\* in the message list before the submission, in their order, each with its
\* role taken from the message's type.
C20_HistoryWindow ==
    requests # <<>> =>
        LET history == requests[Len(requests)].conversation_history
            k == IF Prior < 10 THEN Prior ELSE 10
        IN /\ Len(history) <= 10
           /\ Len(history) = k
           /\ \A i \in 1..k :
                 /\ history[i].content = messages[Prior - k + i].content
                 /\ history[i].role = messages[Prior - k + i].type

\* a question was asked in a chat of 11 messages of both types
C20_Witness ==
    /\ requests # <<>>
    /\ Prior = 11
    /\ Len(requests[1].conversation_history) = 10
    /\ requests[1].conversation_history[1].content = <<"2">>
    /\ \E i, j \in 1..10 : /\ requests[1].conversation_history[i].role = "user"
                           /\ requests[1].conversation_history[j].role = "assistant"

(* ------------------------------------------------------------------ *)
(* Properties of the streaming handler: text, flags and payloads       *)
(* ------------------------------------------------------------------ *)
\* the text deltas the backend sends
TextDeltas == {ChunkOf(k).content[1] : k \in {"text_stream:Done", "text_stream:b"}}

\* how often a delta shows in a content
Occurrences(delta, content) == Cardinality({p \in 1..Len(content) : content[p] = delta})

\* how often a delta was handed to onChunk
Deliveries(delta) ==
    Cardinality({i \in 1..Len(delivered) :
                    IsText(delivered[i]) /\ ChunkOf(delivered[i]).content[1] = delta})

NoErrorChunk == \A i \in 1..Len(delivered) : delivered[i] # "error"

\* C22: for a chunk sequence without an error chunk that ends in stream
\* completion no text_stream delta is duplicated: each delta occurs in the
\* final content of the target message at most once per delivery, whichever
\* of the incremental append, the analysis_complete flush and the
\* end-of-stream flush are taken.
C22_NoDuplicateText ==
    (Settled /\ NoErrorChunk) =>
        \A d \in TextDeltas : Occurrences(d, Target.content) <= Deliveries(d)

\* the assistant record that onComplete passed to addMessage
SavedAssistant ==
    LET list == SelectSeq(appended[sessionId], LAMBDA m : m.type = "assistant")
    IN list[Len(list)]

\* C23: the assistant record written to the store at stream end carries the
\* same content, chart payload, follow-up questions and code block as the
\* target message of the list after the end-of-stream flush: what is
\* persisted equals what is displayed.
C23_PersistedEqualsDisplayed ==
    (Settled /\ sessionId # "null" /\ ~IsTemp(sessionId)
     /\ AssistantCount(appended[sessionId]) > 0) =>
        /\ SavedAssistant.content = Target.content
        /\ SavedAssistant.followUpQuestions = Target.followUpQuestions
        /\ SavedAssistant.codeExecution = Target.codeExecution
        /\ Truthy(Target.chartData) => SavedAssistant.chartData = Target.chartData
        /\ ~Truthy(Target.chartData) => ~Truthy(SavedAssistant.chartData)

\* the request has ended, by the end of the body or by a failure, and every
\* updater has run
Terminated == reader \in {"complete", "failed"} /\ queue = <<>>

\* C24: whenever a streaming request terminates, by analysis_complete, by an
\* error chunk, by the end of the body without analysis_complete, or by a
\* transport failure, the target message ends with its streaming flag
\* cleared and with any code block marked not executing.
C24_FlagsClearedAtEnd ==
    Terminated => (~Target.isStreaming /\ ~Target.codeExecution.isExecuting)

\* an analysis_complete chunk was processed after a chart_generated chunk
CompleteAfterChart ==
    \E i, j \in 1..Len(delivered) :
        /\ i < j
        /\ delivered[i] = "chart_generated"
        /\ ChunkOf(delivered[j]).type = "analysis_complete"

\* C25: a chart payload attached to the target message by a chart_generated
\* chunk is still attached after analysis_complete has been processed, also
\* when the analysis_complete chunk carries no chart payload.
C25_ChartKept ==
    (reader \in {"reading", "complete"} /\ queue = <<>> /\ CompleteAfterChart)
        => Truthy(Target.chartData)

\* the record of the last line of the body when the body does not end with
\* a newline: the reader keeps that line in its buffer
UnterminatedKeys ==
    IF StartsWithData(buffer) /\ ParseChunk(Tail(buffer)).ok
    THEN <<ParseChunk(Tail(buffer)).key>> ELSE <<>>

\* the well-formed records of the whole body, once it has been read
BodyKeys == SentKeys \o UnterminatedKeys

\* C29: the reader hands every well-formed 'data: <json>' record of the body
\* to the chunk handler exactly once and in order, however the bytes are
\* split across reads and whether or not the last record is followed by a
\* newline before the end; the completion callback runs once, after the
\* last delivered chunk.
C29_EveryRecordDelivered ==
    /\ IsPrefix(delivered, BodyKeys)
    /\ completed <= 1
    /\ reader = "complete" => (delivered = BodyKeys /\ completed = 1)
    /\ reader # "complete" => completed = 0

(* ------------------------------------------------------------------ *)
(* Properties of session loading                                       *)
(* ------------------------------------------------------------------ *)
\* the positions of the stored upload messages of a session
UploadPositions(sid) ==
    {i \in 1..Len(sessions[sid].messages) :
        sessions[sid].messages[i].fileInfo.def
        /\ sessions[sid].messages[i].fileInfo.file_id # ""}

\* the file of the most recent stored upload message
LastUploadedFile(sid) ==
    sessions[sid].messages[CHOOSE i \in UploadPositions(sid) :
                              \A j \in UploadPositions(sid) : j <= i].fileInfo.file_id

\* the step loads a stored session
LoadStep(sid) ==
    /\ currentSessionId # sid
    /\ currentSessionId' = sid
    /\ sessions[sid].exists
    /\ sessions' = sessions

\* C28: when a persisted session in which several files were uploaded is
\* loaded again, the active file restored for it is the file of the most
\* recent upload message, not that of an earlier upload.
C28_RestoresLatestFile ==
    [][\A sid \in SessionIds :
          (LoadStep(sid) /\ Cardinality(UploadPositions(sid)) > 1)
              => uploadedFile' = LastUploadedFile(sid)]_vars

(* ------------------------------------------------------------------ *)
(* Questions submitted while a stream is open                           *)
(* ------------------------------------------------------------------ *)
\* the milliseconds that pass in a behaviour
MaxTicks == 2

\* the questions submitted in a behaviour
MaxSubmissions == 3

\* Date.now().toString()
Stamp(t) == ToString(t)

\* a millisecond passes
Tick ==
    /\ dateNow < Epoch + MaxTicks
    /\ dateNow' = dateNow + 1
    /\ UNCHANGED <<storeVars, messages, queue, renderPending, textBuffer,
                   finalAssistantMessage, currentSessionId, sessionId,
                   uploadedFile, upload, requests, outcome, loading, readerVars>>

\* handleSendMessage called from the input box, a follow-up button or the
\* project page: lines 900 and 909 mint the ids
SubmitQuestion ==
    \E content \in Questions, created \in BOOLEAN :
        HandleSendMessageAt(content, created, Stamp(dateNow), Stamp(dateNow + 1), TRUE)

\* the same call while the answer to an earlier question is streaming
SubmitWhileStreaming ==
    /\ Len(requests) < MaxSubmissions
    /\ \E content \in Questions, created \in BOOLEAN :
          HandleSendMessageAt(content, created, Stamp(dateNow), Stamp(dateNow + 1), FALSE)

NextResubmit ==
    \/ Tick
    \/ InitializeChatSession
    \/ reader = "idle" /\ HandleNewChat
    \/ SubmitQuestion
    \/ FetchOk
    \/ SubmitWhileStreaming

SpecResubmit == InitStream /\ [][NextResubmit]_vars

\* C21: message ids are unique within the current message list.
C21_UniqueIds ==
    \A i, j \in 1..Len(messages) : i # j => messages[i].id # messages[j].id

\* C26: at most one streaming request is in flight: while the response to a
\* submitted question is streaming, a further call of handleSendMessage is
\* rejected without appending messages or opening a second stream.
C26_OneStreamInFlight ==
    [][/\ reader \in {"fetch", "reading"} => requests' = requests
       /\ reader \in {"fetch", "reading"} => Len(messages') = Len(messages)]_vars

(* ------------------------------------------------------------------ *)
(* Session clicks whose loads overlap                                   *)
(* ------------------------------------------------------------------ *)
\* the stored messages of the user's two chats
SwitchMessages(sid, file) ==
    IF sid = "s1"
    THEN <<TextMessage("s1", User, "user", <<"a">>)>>
    ELSE <<UploadRecord("s2", UploadMessage(file)), TextMessage("s2", User, "user", <<"b">>)>>

\* a fresh tab of a user who has two stored chats
InitSwitch ==
    /\ \E file \in Files :
          /\ sessions = StoreAfter(
                           StoreAfter([NoSessions EXCEPT
                                          !["s1"] = CreatedDoc(User, "title", 1),
                                          !["s2"] = CreatedDoc(User, "title", 2)],
                                      SwitchMessages("s1", file), 2),
                           SwitchMessages("s2", file), 3)
          /\ appended = [s \in SessionIds |->
                           IF s \in GeneratedIds THEN SwitchMessages(s, file) ELSE <<>>]
    /\ clock = 5
    /\ writes = [s \in SessionIds |->
                   IF s = "s1" THEN <<"create", "add">>
                   ELSE IF s = "s2" THEN <<"create", "add", "add">> ELSE <<>>]
    /\ calls = [c \in Callers |-> IdleCall]
    /\ overlapped = {}
    /\ InitUI
    /\ currentSessionId = "null"
    /\ script = <<>>

\* lines 554-586: the list that setMessages(convertedMessages) shows
LoadedMessages(sid) ==
    LET loaded == GetMessages(sid)
    IN [i \in 1..Len(loaded) |-> ConvertedMessage(loaded[i])]

\* lines 545-548 and 591-617: the active file after the load
LoadedFile(sid) ==
    IF Len(GetMessages(sid)) = 0 THEN "null"
    ELSE RestoredFile(GetMessages(sid), sessions[sid])

\* handleSessionClick, lines 514-532, up to the await of getMessages
SessionClick(sid) ==
    /\ sid # currentSessionId
    /\ sid \in StaleIds \/ Listed(sid)
    /\ currentSessionId' = sid
    /\ loading' = loading \cup {sid}
    /\ UNCHANGED <<storeVars, messages, queue, renderPending, textBuffer,
                   finalAssistantMessage, sessionId, uploadedFile, upload, requests,
                   outcome, dateNow, readerVars>>

\* getMessages resolves: the rest of handleSessionClick, lines 534-620
SessionLoaded(sid) ==
    /\ sid \in loading
    /\ loading' = loading \ {sid}
    /\ messages' = LoadedMessages(sid)
    /\ uploadedFile' = LoadedFile(sid)
    /\ UNCHANGED <<storeVars, queue, renderPending, textBuffer, finalAssistantMessage,
                   currentSessionId, sessionId, upload, requests, outcome, dateNow,
                   readerVars>>

NextSwitch ==
    \/ InitializeChatSession
    \/ HandleNewChat
    \/ \E sid \in SessionIds : SessionClick(sid)
    \/ \E sid \in SessionIds : SessionLoaded(sid)

SpecSwitch == InitSwitch /\ [][NextSwitch]_vars

\* C27: if the user selects session A and then session B before A's
\* messages have loaded, then once both loads have completed the displayed
\* message list and the active file are those of session B, the session
\* recorded as current, whichever load finishes last.
C27_LastClickWins ==
    (loading = {} /\ currentSessionId \in SessionIds) =>
        /\ messages = LoadedMessages(currentSessionId)
        /\ uploadedFile = LoadedFile(currentSessionId)

(* ------------------------------------------------------------------ *)
(* Submissions and uploads when createChatSession can fail              *)
(* ------------------------------------------------------------------ *)
NextTemp ==
    \/ SubmitQuestion
    \/ FetchOk
    \/ SubmitWhileStreaming
    \/ ServerClose
    \/ \E eager \in BOOLEAN : ReadDone(eager)
    \/ SaveGetDoc
    \/ SaveSetDoc
    \/ \E file \in Files, created \in BOOLEAN : HandleFileUpload(file, created)
    \/ \E ok \in BOOLEAN : UploadStorage(ok)
    \/ \E ok \in BOOLEAN : UploadBackend(ok)

SpecTemp == InitStream /\ [][NextTemp]_vars

\* no session record: the id is null or a temp_ placeholder
Unsaved(id) == id = "null" \/ IsTemp(id)

\* the step creates the session record s
Creates(s) == ~sessions[s].exists /\ sessions'[s].exists

NoStoreCall == sessions' = sessions /\ clock' = clock /\ appended' = appended /\ calls' = calls

\* C30: when session creation fails during a submission the current session
\* id becomes a temp_ placeholder; no addMessage call is issued with a
\* temp_, empty or null session id by the user-message save, the save at the
\* end of the stream or the saves of handleFileUpload; and the next
\* submitted question attempts session creation again (it creates the
\* record or stays on the placeholder).
C30_TempSessionNeverSaved ==
    /\ [][(RequestStep /\ Unsaved(currentSessionId))
             => \/ IsTemp(currentSessionId') /\ NoStoreCall
                \/ currentSessionId' \in GeneratedIds /\ Creates(currentSessionId')]_vars
    /\ [][(RequestStep /\ Unsaved(currentSessionId')) => NoStoreCall]_vars
    /\ [][(reader = "reading" /\ reader' = "complete" /\ Unsaved(sessionId))
             => NoStoreCall]_vars
    /\ [][(upload.pc # "idle" /\ upload'.pc = "idle" /\ Unsaved(upload.sessionId))
             => NoStoreCall]_vars

\* a question was submitted on a placeholder id, its stream ended, and the
\* next question created the session record
C30_Witness ==
    /\ Len(requests) = 2
    /\ reader = "complete"
    /\ IsTemp(sessionId)
    /\ currentSessionId \in GeneratedIds
    /\ writes[currentSessionId] = <<"create", "add">>
    /\ Len(appended[currentSessionId]) = 1
    /\ \A s \in SessionIds \ {currentSessionId} : appended[s] = <<>>

====
